---- MODULE Spec2Model ----
(***************************************************************************)
(* prbot: main() of src/main.go as a state machine.                        *)
(*                                                                         *)
(* One coordinating goroutine (main) walks the positions of main(); one    *)
(* worker goroutine per selected Go file fetches the blob, runs gofmt and  *)
(* appends a patched tree entry to `changes` under the mutex `mu`.  The    *)
(* hosting service is the environment: every remote call may fail, and     *)
(* the identifiers it returns are drawn from small sets.                   *)
(*                                                                         *)
(* Paths, command-line arguments and blob contents are tuples of           *)
(* one-character strings, so that strings.HasSuffix, strings.Split,        *)
(* bytes.Equal and the formatter are computed on their characters.         *)
(***************************************************************************)
EXTENDS Integers, Sequences, FiniteSets, TLC

VARIABLES
    argv,        \* flag.Args(): the positional command-line arguments
    repoTree,    \* the tree listing of the target branch on the remote
    pc,          \* position of main()
    exitCode,    \* process exit status, NoExit while running
    diag,        \* message prefix of the log.Fatalf / usage that ended the run
    owner, repo, \* parts[0], parts[1]
    ref,         \* the variable `ref` (GetRef result, reassigned by CreateRef)
    origCommit,  \* *ref.Object.SHA after GetRef
    tree,        \* result of GetTree
    goFiles,     \* the selected candidates
    wg,          \* sync.WaitGroup counter
    mu,          \* sync.Mutex: 0 when free, else the index of the holder
    changes,     \* the shared slice of patched tree entries
    w,           \* the worker goroutines, w[i] runs for goFiles[i]; its in and
                 \* out are nil slices (<<>>) until assigned
    fork, newTree, comm, prBranch, pr,   \* results of the assembler steps
    calls,       \* the requests main() made to the hosting service, in order
    remote       \* objects that exist on the hosting service because of this run

vars == <<argv, repoTree, pc, exitCode, diag, owner, repo, ref, origCommit,
          tree, goFiles, wg, mu, changes, w, fork, newTree, comm, prBranch,
          pr, calls, remote>>

Nil == "nil"

\* The values of main()'s variables before they are assigned, and of a
\* result pointer that is nil: records of the shape of the result with
\* unset fields, and the empty string.
NoExit == -1

NoRef == [Ref |-> Nil, Type |-> Nil, SHA |-> Nil]

NoTree == [SHA |-> Nil, Entries |-> <<>>]

NoFork == [Owner |-> Nil, Name |-> <<>>, HTMLURL |-> Nil]

NoObject == [SHA |-> Nil]

NoPR == [HTMLURL |-> Nil]

(***************************************************************************)
(* Bounds and program constants                                            *)
(***************************************************************************)
MaxEntries == 4          \* longest tree listing the remote returns

MaxListing == 3          \* longest listing in the check of the selection alone

MaxSize == 1048576       \* 1<<20, the size ceiling of the selector

Suffix == <<".", "g", "o">>

branch == "master"

PrBranchName == "prbot-gofmt"

(***************************************************************************)
(* Strings as tuples of characters                                         *)
(***************************************************************************)
\* strings.HasSuffix(s, suffix)
HasSuffix(s, suffix) ==
    /\ Len(s) >= Len(suffix)
    /\ SubSeq(s, Len(s) - Len(suffix) + 1, Len(s)) = suffix

\* strings.Split(s, sep) for a one-character separator: the pieces between
\* the separators, one more piece than there are separators.
RECURSIVE SplitFrom(_, _, _, _)
SplitFrom(s, sep, i, cur) ==
    IF i > Len(s) THEN <<cur>>
    ELSE IF s[i] = sep THEN <<cur>> \o SplitFrom(s, sep, i + 1, <<>>)
    ELSE SplitFrom(s, sep, i + 1, Append(cur, s[i]))

Split(s, sep) == SplitFrom(s, sep, 1, <<>>)

(***************************************************************************)
(* The formatter (go/format.Source) on a toy language: "(" is a syntax     *)
(* error, and the canonical form has no run of two or more blanks.         *)
(***************************************************************************)
RECURSIVE Squeeze(_)
Squeeze(b) ==
    IF Len(b) < 2 THEN b
    ELSE IF b[1] = " " /\ b[2] = " " THEN Squeeze(Tail(b))
    ELSE <<b[1]>> \o Squeeze(Tail(b))

FormatSource(b) ==
    IF \E i \in 1..Len(b) : b[i] = "("
    THEN [out |-> Nil, err |-> "syntax"]
    ELSE [out |-> Squeeze(b), err |-> Nil]

\* bytes.Equal(a, b)
BytesEqual(a, b) ==
    /\ Len(a) = Len(b)
    /\ \A i \in 1..Len(a) : a[i] = b[i]

(***************************************************************************)
(* The remote repository: blobs by content hash and the files a tree       *)
(* listing is made of.                                                     *)
(***************************************************************************)
Blob(sha) ==
    CASE sha = "sha-un1" -> <<"x", " ", " ", "y">>
      [] sha = "sha-un2" -> <<"y", " ", " ", " ", "x">>
      [] sha = "sha-can" -> <<"x", " ", "y">>
      [] sha = "sha-bad" -> <<"x", "(">>
      [] OTHER -> <<>>

\* A github.TreeEntry; Size is a *int: {} when nil, else {n}.
TE(path, mode, type, size, sha) ==
    [Path |-> path, Mode |-> mode, Type |-> type, Size |-> size, SHA |-> sha]

\* The files of the repository, in the order of their paths (the order in
\* which the service lists a tree).
PoolSeq ==
    << TE(<<"a", ".", "g", "o">>, "100644", "blob", {MaxSize}, "sha-can"),
       TE(<<"b", ".", "g", "o">>, "100755", "blob", {}, "sha-un2"),
       TE(<<"c", ".", "g", "o">>, "100644", "blob", {20}, "sha-bad"),
       TE(<<"d", ".", "g", "o">>, "100644", "blob", {10}, "sha-un1"),
       TE(<<"e", ".", "g", "o">>, "100644", "blob", {MaxSize + 1}, "sha-un1"),
       TE(<<"f", ".", "g", "o">>, "100755", "blob", {7}, "sha-can"),
       TE(<<"g", "o">>, "100644", "blob", {5}, "sha-un2"),
       TE(<<"v", ".", "g", "o">>, "040000", "tree", {}, "sha-dir") >>

FilePool == { PoolSeq[i] : i \in 1..Len(PoolSeq) }

RECURSIVE Pick(_, _)
Pick(S, i) ==
    IF i > Len(PoolSeq) THEN <<>>
    ELSE (IF i \in S THEN <<PoolSeq[i]>> ELSE <<>>) \o Pick(S, i + 1)

\* Tree listings as the service returns them: at most MaxEntries files of
\* the pool, in path order.
Listings ==
    { Pick(S, 1) : S \in { T \in SUBSET (1..Len(PoolSeq)) : Cardinality(T) <= MaxEntries } }

\* Tree listings in any order: at most MaxListing files, each path once.
AnyListings ==
    { s \in UNION { [1..n -> FilePool] : n \in 0..MaxListing } :
        \A i, j \in 1..Len(s) : i # j => s[i] # s[j] }

ArgvSet ==
    { <<>>,
      << <<"o", "/", "r">> >>,
      << <<"o", "r">> >>,
      << <<"o", "/", "r", "/", "x">> >>,
      << <<"o", "/", "r">>, <<"z">> >> }

CommitIds == {"c1", "c2"}
ForkResults == { [Owner |-> "bot", Name |-> <<"r">>, HTMLURL |-> "u/bot/r"],
                 [Owner |-> "bot2", Name |-> <<"r", "-", "1">>, HTMLURL |-> "u/bot2/r-1"] }
NewTreeIds == {"T1", "T2"}
NewCommitIds == {"n1", "n2"}
PrUrls == {"pr/1", "pr/2"}

(***************************************************************************)
(* Candidate selection, main.go:74-84: the loop over tree.Entries          *)
(***************************************************************************)
\* the size test written with >= : a file of exactly 1 MB is skipped
Selected_AtCeiling(te) ==
    /\ te.Type = "blob"
    /\ HasSuffix(te.Path, Suffix)
    /\ ~(te.Size # {} /\ \A sz \in te.Size : sz >= MaxSize)

Selected(te) ==
    /\ te.Type = "blob"
    /\ HasSuffix(te.Path, Suffix)
    /\ ~(te.Size # {} /\ \A sz \in te.Size : sz > MaxSize)

RECURSIVE SelectFrom(_, _, _)
SelectFrom(entries, i, acc) ==
    IF i > Len(entries) THEN acc
    ELSE SelectFrom(entries, i + 1,
                    IF Selected(entries[i]) THEN Append(acc, entries[i]) ELSE acc)

Select(entries) == SelectFrom(entries, 1, <<>>)

(***************************************************************************)
(* The hosting service                                                     *)
(***************************************************************************)
Call(op, args, ok, res) == [op |-> op, args |-> args, ok |-> ok, res |-> res]

WriteOps == {"CreateFork", "CreateTree", "CreateCommit", "CreateRef", "CreatePR"}

\* Git trees API with base_tree: the new tree is the base tree with every
\* path named by an override replaced (or added); the service hashes the
\* content of an override itself.  A tree is a set of (path, mode, type,
\* content) entries here, the content standing for its hash.
Override(e) == [Path |-> e.Path, Mode |-> e.Mode, Type |-> e.Type, Content |-> e.Content]

TreeOf(entries) ==
    { [Path |-> entries[i].Path, Mode |-> entries[i].Mode,
       Type |-> entries[i].Type, Content |-> Blob(entries[i].SHA)] : i \in 1..Len(entries) }

ApplyOverrides(base, overrides) ==
    { e \in base : \A k \in 1..Len(overrides) : overrides[k].Path # e.Path }
        \cup { Override(overrides[k]) : k \in 1..Len(overrides) }

EmptyRemote == [forks |-> {}, trees |-> {}, commits |-> {}, refs |-> {}, prs |-> {}]

(***************************************************************************)
(* Initial state                                                           *)
(***************************************************************************)
Init ==
    /\ argv \in ArgvSet
    /\ repoTree \in Listings
    /\ pc = "args"
    /\ exitCode = NoExit
    /\ diag = Nil
    /\ owner = <<>> /\ repo = <<>>
    /\ ref = NoRef /\ origCommit = Nil /\ tree = NoTree
    /\ goFiles = <<>>
    /\ wg = 0 /\ mu = 0
    /\ changes = <<>>
    /\ w = <<>>
    /\ fork = NoFork /\ newTree = NoObject /\ comm = NoObject
    /\ prBranch = Nil /\ pr = NoPR
    /\ calls = <<>>
    /\ remote = EmptyRemote

\* usage(); os.Exit(1)   and   log.Fatalf(msg)
Exit(code, msg) ==
    /\ pc' = "exit"
    /\ exitCode' = code
    /\ diag' = msg

(***************************************************************************)
(* main(), lines 30-72: arguments, token, branch, tree, selection          *)
(***************************************************************************)
\* the argument check written as len(parts) < 2
ParseArgs_AtLeastTwo ==
    /\ pc = "args"
    /\ IF Len(argv) # 1
       THEN Exit(1, "usage") /\ UNCHANGED <<owner, repo>>
       ELSE LET parts == Split(argv[1], "/") IN
            IF Len(parts) < 2
            THEN Exit(1, "usage") /\ UNCHANGED <<owner, repo>>
            ELSE /\ pc' = "token"
                 /\ owner' = parts[1]
                 /\ repo' = parts[2]
                 /\ UNCHANGED <<exitCode, diag>>
    /\ UNCHANGED <<argv, repoTree, ref, origCommit, tree, goFiles, wg, mu,
                   changes, w, fork, newTree, comm, prBranch, pr, calls, remote>>

ParseArgs ==
    /\ pc = "args"
    /\ IF Len(argv) # 1
       THEN Exit(1, "usage") /\ UNCHANGED <<owner, repo>>
       ELSE LET parts == Split(argv[1], "/") IN
            IF Len(parts) # 2
            THEN Exit(1, "usage") /\ UNCHANGED <<owner, repo>>
            ELSE /\ pc' = "token"
                 /\ owner' = parts[1]
                 /\ repo' = parts[2]
                 /\ UNCHANGED <<exitCode, diag>>
    /\ UNCHANGED <<argv, repoTree, ref, origCommit, tree, goFiles, wg, mu,
                   changes, w, fork, newTree, comm, prBranch, pr, calls, remote>>

ReadToken ==
    /\ pc = "token"
    /\ \E ok \in BOOLEAN :
          IF ok THEN pc' = "getref" /\ UNCHANGED <<exitCode, diag>>
          ELSE Exit(1, "Reading auth token")
    /\ UNCHANGED <<argv, repoTree, owner, repo, ref, origCommit, tree, goFiles,
                   wg, mu, changes, w, fork, newTree, comm, prBranch, pr, calls,
                   remote>>

\* GetRef without the check that the ref points at a commit
GetRef_NoTypeCheck ==
    /\ pc = "getref"
    /\ LET args == [owner |-> owner, repo |-> repo, ref |-> "refs/heads/" \o branch] IN
       \/ /\ calls' = Append(calls, Call("GetRef", args, FALSE, Nil))
          /\ Exit(1, "Getting ref")
          /\ UNCHANGED <<ref, origCommit>>
       \/ \E type \in {"commit", "tag"}, sha \in CommitIds :
            LET r == [Ref |-> "refs/heads/" \o branch, Type |-> type, SHA |-> sha] IN
            /\ calls' = Append(calls, Call("GetRef", args, TRUE, r))
            /\ ref' = r
            /\ origCommit' = sha
            /\ pc' = "gettree"
            /\ UNCHANGED <<exitCode, diag>>
    /\ UNCHANGED <<argv, repoTree, owner, repo, tree, goFiles, wg, mu, changes,
                   w, fork, newTree, comm, prBranch, pr, remote>>

GetRef ==
    /\ pc = "getref"
    /\ LET args == [owner |-> owner, repo |-> repo, ref |-> "refs/heads/" \o branch] IN
       \/ /\ calls' = Append(calls, Call("GetRef", args, FALSE, Nil))
          /\ Exit(1, "Getting ref")
          /\ UNCHANGED <<ref, origCommit>>
       \/ \E type \in {"commit", "tag"}, sha \in CommitIds :
            LET r == [Ref |-> "refs/heads/" \o branch, Type |-> type, SHA |-> sha] IN
            /\ calls' = Append(calls, Call("GetRef", args, TRUE, r))
            /\ ref' = r
            /\ IF type # "commit"
               THEN Exit(1, "branch does not point at a commit")
                    /\ UNCHANGED origCommit
               ELSE /\ origCommit' = sha
                    /\ pc' = "gettree"
                    /\ UNCHANGED <<exitCode, diag>>
    /\ UNCHANGED <<argv, repoTree, owner, repo, tree, goFiles, wg, mu, changes,
                   w, fork, newTree, comm, prBranch, pr, remote>>

OrigTreeId == "T0"

GetTree ==
    /\ pc = "gettree"
    /\ LET args == [owner |-> owner, repo |-> repo, sha |-> origCommit, recursive |-> TRUE] IN
       \/ /\ calls' = Append(calls, Call("GetTree", args, FALSE, Nil))
          /\ Exit(1, "Getting tree")
          /\ UNCHANGED <<tree, goFiles>>
       \/ LET t == [SHA |-> OrigTreeId, Entries |-> repoTree] IN
          /\ calls' = Append(calls, Call("GetTree", args, TRUE, t))
          /\ tree' = t
          /\ goFiles' = Select(t.Entries)
          /\ pc' = "spawn"
          /\ UNCHANGED <<exitCode, diag>>
    /\ UNCHANGED <<argv, repoTree, owner, repo, ref, origCommit, wg, mu,
                   changes, w, fork, newTree, comm, prBranch, pr, remote>>

(***************************************************************************)
(* The worker pool, lines 89-127                                           *)
(***************************************************************************)
\* the loop without `te := te`: every goroutine reads the loop variable,
\* which holds the last candidate
Spawn_SharedLoopVar ==
    /\ pc = "spawn"
    /\ Len(w) < Len(goFiles)
    /\ wg' = wg + 1
    /\ w' = Append(w, [pc |-> "fetch", te |-> goFiles[Len(goFiles)], in |-> <<>>,
                       out |-> <<>>, err |-> Nil, fetches |-> 0])
    /\ UNCHANGED <<argv, repoTree, pc, exitCode, diag, owner, repo, ref,
                   origCommit, tree, goFiles, mu, changes, fork, newTree, comm,
                   prBranch, pr, calls, remote>>

\* for _, te := range goFiles { te := te; wg.Add(1); go func() {...}() }
Spawn ==
    /\ pc = "spawn"
    /\ Len(w) < Len(goFiles)
    /\ wg' = wg + 1
    /\ w' = Append(w, [pc |-> "fetch", te |-> goFiles[Len(w) + 1], in |-> <<>>,
                       out |-> <<>>, err |-> Nil, fetches |-> 0])
    /\ UNCHANGED <<argv, repoTree, pc, exitCode, diag, owner, repo, ref,
                   origCommit, tree, goFiles, mu, changes, fork, newTree, comm,
                   prBranch, pr, calls, remote>>

EndLoop ==
    /\ pc = "spawn"
    /\ Len(w) = Len(goFiles)
    /\ pc' = "wait"
    /\ UNCHANGED <<argv, repoTree, exitCode, diag, owner, repo, ref, origCommit,
                   tree, goFiles, wg, mu, changes, w, fork, newTree, comm,
                   prBranch, pr, calls, remote>>

\* a barrier that does not block
WaitReturns_NoBlock == TRUE

\* wg.Wait() returns when the counter is zero
WaitReturns == wg = 0

Wait ==
    /\ pc = "wait"
    /\ WaitReturns
    /\ pc' = "checklen"
    /\ UNCHANGED <<argv, repoTree, exitCode, diag, owner, repo, ref, origCommit,
                   tree, goFiles, wg, mu, changes, w, fork, newTree, comm,
                   prBranch, pr, calls, remote>>

mainVars == <<argv, repoTree, pc, exitCode, diag, owner, repo, ref, origCommit,
              tree, goFiles, fork, newTree, comm, prBranch, pr, calls, remote>>

\* the fetch with log.Fatalf in place of log.Printf and return
WFetch_Fatal(i) ==
    /\ w[i].pc = "fetch"
    /\ \/ /\ w' = [w EXCEPT ![i].fetches = @ + 1, ![i].err = "fetch", ![i].pc = "done"]
          /\ Exit(1, "Fetching blob")
          /\ UNCHANGED <<argv, repoTree, owner, repo, ref, origCommit, tree,
                         goFiles, fork, newTree, comm, prBranch, pr, calls,
                         remote, wg>>
       \/ /\ w' = [w EXCEPT ![i].fetches = @ + 1, ![i].in = Blob(w[i].te.SHA),
                            ![i].pc = "format"]
          /\ UNCHANGED <<mainVars, wg>>
    /\ UNCHANGED <<mu, changes>>

\* in, err := rawBlob(gh, owner, repo, *te.SHA); on error log and return
\* (the deferred wg.Done runs)
WFetch(i) ==
    /\ w[i].pc = "fetch"
    /\ \/ /\ w' = [w EXCEPT ![i].fetches = @ + 1, ![i].err = "fetch", ![i].pc = "done"]
          /\ wg' = wg - 1
       \/ /\ w' = [w EXCEPT ![i].fetches = @ + 1, ![i].in = Blob(w[i].te.SHA),
                            ![i].pc = "format"]
          /\ wg' = wg
    /\ UNCHANGED <<mainVars, mu, changes>>

\* the comparison left out: every formatted file is recorded
Unchanged_Never(in, out) == FALSE

\* if bytes.Equal(in, out) { return }
Unchanged(in, out) == BytesEqual(in, out)

\* wg.Done() called at the end of the goroutine instead of deferred: the
\* early return for an unchanged file does not signal completion
WFormat_NoDoneOnReturn(i) ==
    /\ w[i].pc = "format"
    /\ LET r == FormatSource(w[i].in) IN
       IF r.err # Nil
       THEN /\ w' = [w EXCEPT ![i].err = "format", ![i].pc = "done"]
            /\ wg' = wg - 1
       ELSE IF Unchanged(w[i].in, r.out)
       THEN /\ w' = [w EXCEPT ![i].out = r.out, ![i].pc = "done"]
            /\ wg' = wg
       ELSE /\ w' = [w EXCEPT ![i].out = r.out, ![i].pc = "lock"]
            /\ wg' = wg
    /\ UNCHANGED <<mainVars, mu, changes>>

\* out, err := format.Source(in); the error check; the comparison
WFormat(i) ==
    /\ w[i].pc = "format"
    /\ LET r == FormatSource(w[i].in) IN
       IF r.err # Nil
       THEN /\ w' = [w EXCEPT ![i].err = "format", ![i].pc = "done"]
            /\ wg' = wg - 1
       ELSE IF Unchanged(w[i].in, r.out)
       THEN /\ w' = [w EXCEPT ![i].out = r.out, ![i].pc = "done"]
            /\ wg' = wg - 1
       ELSE /\ w' = [w EXCEPT ![i].out = r.out, ![i].pc = "lock"]
            /\ wg' = wg
    /\ UNCHANGED <<mainVars, mu, changes>>

\* a lock that does not wait for the holder
WLock_NoWait(i) ==
    /\ w[i].pc = "lock"
    /\ mu' = i
    /\ w' = [w EXCEPT ![i].pc = "append"]
    /\ UNCHANGED <<mainVars, wg, changes>>

\* add(te, string(out)): mu.Lock()
WLock(i) ==
    /\ w[i].pc = "lock"
    /\ mu = 0
    /\ mu' = i
    /\ w' = [w EXCEPT ![i].pc = "append"]
    /\ UNCHANGED <<mainVars, wg, changes>>

\* add() with the mode left at the default instead of copied from base
NewEntry_DefaultMode(base, newContents) ==
    [Path |-> base.Path, Mode |-> "100644", Type |-> base.Type,
     Content |-> newContents]

\* the entry add() builds from base and newContents
NewEntry(base, newContents) ==
    [Path |-> base.Path, Mode |-> base.Mode, Type |-> base.Type,
     Content |-> newContents]

\* add() that assigns a new one-element slice instead of appending
WAppend_Replace(i) ==
    /\ w[i].pc = "append"
    /\ mu = i
    /\ changes' = <<NewEntry(w[i].te, w[i].out)>>
    /\ mu' = 0
    /\ w' = [w EXCEPT ![i].pc = "wgdone"]
    /\ UNCHANGED <<mainVars, wg>>

\* changes = append(changes, github.TreeEntry{...}), then the deferred
\* mu.Unlock() as add() returns.  Nothing else reads or writes changes or mu
\* between the two: the other workers are before mu.Lock() and main() is at
\* or before wg.Wait().
WAppend(i) ==
    /\ w[i].pc = "append"
    /\ mu = i
    /\ changes' = Append(changes, NewEntry(w[i].te, w[i].out))
    /\ mu' = 0
    /\ w' = [w EXCEPT ![i].pc = "wgdone"]
    /\ UNCHANGED <<mainVars, wg>>

\* defer wg.Done() on the path through add()
WDone(i) ==
    /\ w[i].pc = "wgdone"
    /\ wg' = wg - 1
    /\ w' = [w EXCEPT ![i].pc = "done"]
    /\ UNCHANGED <<mainVars, mu, changes>>

(***************************************************************************)
(* After the barrier, lines 128-188                                        *)
(***************************************************************************)
poolVars == <<goFiles, wg, mu, changes, w>>

\* the emptiness check left out
NothingToDo_Never == FALSE

\* if len(changes) == 0 { return }
NothingToDo == Len(changes) = 0

\* an empty changes reported as a failure
CheckLen_EmptyIsError ==
    /\ pc = "checklen"
    /\ IF NothingToDo
       THEN Exit(1, "no changes")
       ELSE pc' = "fork" /\ UNCHANGED <<exitCode, diag>>
    /\ UNCHANGED <<argv, repoTree, owner, repo, ref, origCommit, tree, poolVars,
                   fork, newTree, comm, prBranch, pr, calls, remote>>

CheckLen ==
    /\ pc = "checklen"
    /\ IF NothingToDo
       THEN pc' = "exit" /\ exitCode' = 0 /\ diag' = Nil
       ELSE pc' = "fork" /\ UNCHANGED <<exitCode, diag>>
    /\ UNCHANGED <<argv, repoTree, owner, repo, ref, origCommit, tree, poolVars,
                   fork, newTree, comm, prBranch, pr, calls, remote>>

\* gh.Repositories.CreateFork(owner, repo, nil)
CreateForkArgs == [owner |-> owner, repo |-> repo]

\* CreateFork with the error check left out
CreateFork_IgnoreError ==
    /\ pc = "fork"
    /\ \/ /\ calls' = Append(calls, Call("CreateFork", CreateForkArgs, FALSE, Nil))
          /\ pc' = "tree"
          /\ UNCHANGED <<fork, remote, exitCode, diag>>
       \/ \E f \in ForkResults :
            /\ calls' = Append(calls, Call("CreateFork", CreateForkArgs, TRUE, f))
            /\ fork' = f
            /\ remote' = [remote EXCEPT !.forks = @ \cup {f}]
            /\ pc' = "tree"
            /\ UNCHANGED <<exitCode, diag>>
    /\ UNCHANGED <<argv, repoTree, owner, repo, ref, origCommit, tree, poolVars,
                   newTree, comm, prBranch, pr>>

CreateFork ==
    /\ pc = "fork"
    /\ \/ /\ calls' = Append(calls, Call("CreateFork", CreateForkArgs, FALSE, Nil))
          /\ Exit(1, "Creating fork")
          /\ UNCHANGED <<fork, remote>>
       \/ \E f \in ForkResults :
            /\ calls' = Append(calls, Call("CreateFork", CreateForkArgs, TRUE, f))
            /\ fork' = f
            /\ remote' = [remote EXCEPT !.forks = @ \cup {f}]
            /\ pc' = "tree"
            /\ UNCHANGED <<exitCode, diag>>
    /\ UNCHANGED <<argv, repoTree, owner, repo, ref, origCommit, tree, poolVars,
                   newTree, comm, prBranch, pr>>

\* the tree a tree id names on the service
RemoteTree(id) == IF id = OrigTreeId THEN TreeOf(repoTree) ELSE {}

\* CreateTree called without a base tree
CreateTreeArgs_NoBase ==
    [owner |-> fork.Owner, repo |-> fork.Name, base |-> "", entries |-> changes]

\* gh.Git.CreateTree(*fork.Owner.Login, *fork.Name, *tree.SHA, changes)
CreateTreeArgs ==
    [owner |-> fork.Owner, repo |-> fork.Name, base |-> tree.SHA, entries |-> changes]

CreateTree ==
    /\ pc = "tree"
    /\ \/ /\ calls' = Append(calls, Call("CreateTree", CreateTreeArgs, FALSE, Nil))
          /\ Exit(1, "Creating tree")
          /\ UNCHANGED <<newTree, remote>>
       \/ \E id \in NewTreeIds :
            LET t == [SHA |-> id] IN
            /\ calls' = Append(calls, Call("CreateTree", CreateTreeArgs, TRUE, t))
            /\ newTree' = t
            /\ remote' = [remote EXCEPT !.trees = @ \cup
                  {[owner |-> CreateTreeArgs.owner, repo |-> CreateTreeArgs.repo,
                    SHA |-> id,
                    entries |-> ApplyOverrides(RemoteTree(CreateTreeArgs.base),
                                               CreateTreeArgs.entries)]}]
            /\ pc' = "commit"
            /\ UNCHANGED <<exitCode, diag>>
    /\ UNCHANGED <<argv, repoTree, owner, repo, ref, origCommit, tree, poolVars,
                   fork, comm, prBranch, pr>>

\* the commit built on the original tree instead of the new one
CreateCommitArgs_OldTree ==
    [owner |-> fork.Owner, repo |-> fork.Name,
     message |-> "Run gofmt over Go source files.",
     tree |-> tree.SHA, parents |-> <<origCommit>>]

\* the commit created without its parent
CreateCommitArgs_NoParent ==
    [owner |-> fork.Owner, repo |-> fork.Name,
     message |-> "Run gofmt over Go source files.",
     tree |-> newTree.SHA, parents |-> <<>>]

\* gh.Git.CreateCommit(*fork.Owner.Login, *fork.Name, &github.Commit{...})
CreateCommitArgs ==
    [owner |-> fork.Owner, repo |-> fork.Name,
     message |-> "Run gofmt over Go source files.",
     tree |-> newTree.SHA, parents |-> <<origCommit>>]

\* CreateCommit that removes the fork again when it fails
CreateCommit_Cleanup ==
    /\ pc = "commit"
    /\ \/ /\ calls' = Append(calls, Call("CreateCommit", CreateCommitArgs, FALSE, Nil))
          /\ remote' = [remote EXCEPT !.forks = {}]
          /\ Exit(1, "Creating commit")
          /\ UNCHANGED comm
       \/ \E id \in NewCommitIds :
            LET c == [SHA |-> id] IN
            /\ calls' = Append(calls, Call("CreateCommit", CreateCommitArgs, TRUE, c))
            /\ comm' = c
            /\ remote' = [remote EXCEPT !.commits = @ \cup
                  {[owner |-> CreateCommitArgs.owner, repo |-> CreateCommitArgs.repo,
                    SHA |-> id, tree |-> CreateCommitArgs.tree,
                    parents |-> CreateCommitArgs.parents]}]
            /\ pc' = "ref"
            /\ UNCHANGED <<exitCode, diag>>
    /\ UNCHANGED <<argv, repoTree, owner, repo, ref, origCommit, tree, poolVars,
                   fork, newTree, prBranch, pr>>

CreateCommit ==
    /\ pc = "commit"
    /\ \/ /\ calls' = Append(calls, Call("CreateCommit", CreateCommitArgs, FALSE, Nil))
          /\ Exit(1, "Creating commit")
          /\ UNCHANGED <<comm, remote>>
       \/ \E id \in NewCommitIds :
            LET c == [SHA |-> id] IN
            /\ calls' = Append(calls, Call("CreateCommit", CreateCommitArgs, TRUE, c))
            /\ comm' = c
            /\ remote' = [remote EXCEPT !.commits = @ \cup
                  {[owner |-> CreateCommitArgs.owner, repo |-> CreateCommitArgs.repo,
                    SHA |-> id, tree |-> CreateCommitArgs.tree,
                    parents |-> CreateCommitArgs.parents]}]
            /\ pc' = "ref"
            /\ UNCHANGED <<exitCode, diag>>
    /\ UNCHANGED <<argv, repoTree, owner, repo, ref, origCommit, tree, poolVars,
                   fork, newTree, prBranch, pr>>

\* prBranch := "prbot-gofmt"; ref, _, err = gh.Git.CreateRef(...)
CreateRefArgs(b) ==
    [owner |-> fork.Owner, repo |-> fork.Name, ref |-> "refs/heads/" \o b,
     type |-> "commit", sha |-> comm.SHA]

\* CreateRef that stores the new commit id in origCommit
CreateRef_OverwritesOrig ==
    /\ pc = "ref"
    /\ prBranch' = PrBranchName
    /\ LET args == CreateRefArgs(PrBranchName) IN
       \/ /\ calls' = Append(calls, Call("CreateRef", args, FALSE, Nil))
          /\ ref' = NoRef
          /\ Exit(1, "Creating branch")
          /\ UNCHANGED <<remote, origCommit>>
       \/ LET r == [Ref |-> args.ref, Type |-> args.type, SHA |-> args.sha] IN
          /\ calls' = Append(calls, Call("CreateRef", args, TRUE, r))
          /\ ref' = r
          /\ origCommit' = args.sha
          /\ remote' = [remote EXCEPT !.refs = @ \cup
                {[owner |-> args.owner, repo |-> args.repo, ref |-> args.ref,
                  sha |-> args.sha]}]
          /\ pc' = "pr"
          /\ UNCHANGED <<exitCode, diag>>
    /\ UNCHANGED <<argv, repoTree, owner, repo, tree, poolVars,
                   fork, newTree, comm, pr>>

CreateRef ==
    /\ pc = "ref"
    /\ prBranch' = PrBranchName
    /\ LET args == CreateRefArgs(PrBranchName) IN
       \/ /\ calls' = Append(calls, Call("CreateRef", args, FALSE, Nil))
          /\ ref' = NoRef
          /\ Exit(1, "Creating branch")
          /\ UNCHANGED remote
       \/ LET r == [Ref |-> args.ref, Type |-> args.type, SHA |-> args.sha] IN
          /\ calls' = Append(calls, Call("CreateRef", args, TRUE, r))
          /\ ref' = r
          /\ remote' = [remote EXCEPT !.refs = @ \cup
                {[owner |-> args.owner, repo |-> args.repo, ref |-> args.ref,
                  sha |-> args.sha]}]
          /\ pc' = "pr"
          /\ UNCHANGED <<exitCode, diag>>
    /\ UNCHANGED <<argv, repoTree, owner, repo, origCommit, tree, poolVars,
                   fork, newTree, comm, pr>>

\* the pull request opened against the new branch instead of the resolved one
CreatePRArgs_BaseIsPrBranch ==
    [owner |-> owner, repo |-> repo, title |-> "gofmt everything",
     head |-> fork.Owner \o ":" \o prBranch, base |-> prBranch,
     body |-> "I ran gofmt over this repository using prbot, an automated tool."]

\* gh.PullRequests.Create(owner, repo, &github.NewPullRequest{...})
CreatePRArgs ==
    [owner |-> owner, repo |-> repo, title |-> "gofmt everything",
     head |-> fork.Owner \o ":" \o prBranch, base |-> branch,
     body |-> "I ran gofmt over this repository using prbot, an automated tool."]

CreatePR ==
    /\ pc = "pr"
    /\ \/ /\ calls' = Append(calls, Call("CreatePR", CreatePRArgs, FALSE, Nil))
          /\ Exit(1, "Creating pull request")
          /\ UNCHANGED <<pr, remote>>
       \/ \E u \in PrUrls :
            LET p == [HTMLURL |-> u] IN
            /\ calls' = Append(calls, Call("CreatePR", CreatePRArgs, TRUE, p))
            /\ pr' = p
            /\ remote' = [remote EXCEPT !.prs = @ \cup
                  {[owner |-> CreatePRArgs.owner, repo |-> CreatePRArgs.repo,
                    head |-> CreatePRArgs.head, base |-> CreatePRArgs.base,
                    url |-> u]}]
            /\ pc' = "exit" /\ exitCode' = 0 /\ diag' = Nil
    /\ UNCHANGED <<argv, repoTree, owner, repo, ref, origCommit, tree, poolVars,
                   fork, newTree, comm, prBranch>>

(***************************************************************************)
(* The specification                                                       *)
(***************************************************************************)
Next ==
    \/ ParseArgs
    \/ ReadToken
    \/ GetRef
    \/ GetTree
    \/ Spawn
    \/ EndLoop
    \/ Wait
    \/ \E i \in 1..Len(w) : WFetch(i)
    \/ \E i \in 1..Len(w) : WFormat(i)
    \/ \E i \in 1..Len(w) : WLock(i)
    \/ \E i \in 1..Len(w) : WAppend(i)
    \/ \E i \in 1..Len(w) : WDone(i)
    \/ CheckLen
    \/ CreateFork
    \/ CreateTree
    \/ CreateCommit
    \/ CreateRef
    \/ CreatePR

Spec == Init /\ [][Next]_vars

\* The positions of main() and of the workers; every step of Next changes
\* one of them.
progress == <<pc, Len(w), [i \in 1..Len(w) |-> w[i].pc]>>

\* The run under a scheduler that keeps running some goroutine that can
\* take a step, every call to the service and to the formatter returning.
FairSpec == Init /\ [][Next]_vars /\ WF_progress(Next)

\* main() up to the selection of the candidates, on listings in any order
InitSel ==
    /\ argv \in ArgvSet
    /\ repoTree \in AnyListings
    /\ pc = "args"
    /\ exitCode = NoExit
    /\ diag = Nil
    /\ owner = <<>> /\ repo = <<>>
    /\ ref = NoRef /\ origCommit = Nil /\ tree = NoTree
    /\ goFiles = <<>>
    /\ wg = 0 /\ mu = 0
    /\ changes = <<>>
    /\ w = <<>>
    /\ fork = NoFork /\ newTree = NoObject /\ comm = NoObject
    /\ prBranch = Nil /\ pr = NoPR
    /\ calls = <<>>
    /\ remote = EmptyRemote

NextSel ==
    \/ ParseArgs
    \/ ReadToken
    \/ GetRef
    \/ GetTree

SelSpec == InitSel /\ [][NextSel]_vars

(***************************************************************************)
(* Vocabulary of the properties                                            *)
(***************************************************************************)
PreBarrierDiags ==
    {"usage", "Reading auth token", "Getting ref",
     "branch does not point at a commit", "Getting tree"}

AssemblerDiags ==
    {"Creating fork", "Creating tree", "Creating commit", "Creating branch",
     "Creating pull request"}

\* main() is past wg.Wait()
BarrierDone ==
    \/ pc \in {"checklen", "fork", "tree", "commit", "ref", "pr"}
    \/ pc = "exit" /\ diag \notin PreBarrierDiags

Workers == 1..Len(w)

Failed(i) == w[i].err # Nil

\* The raw and canonical bytes of a candidate, from the repository content
Raw(te) == Blob(te.SHA)

Formats(te) == FormatSource(Raw(te)).err = Nil

Canonical(te) == FormatSource(Raw(te)).out

\* worker i fetched its blob, formatted it, and the result differs
Changed(i) ==
    /\ w[i].err = Nil
    /\ w[i].fetches = 1
    /\ Formats(goFiles[i])
    /\ Canonical(goFiles[i]) # Raw(goFiles[i])

EntriesFor(path) == { k \in 1..Len(changes) : changes[k].Path = path }

WriteCalls == SelectSeq(calls, LAMBDA c : c.op \in WriteOps)

AllWorkersDone ==
    /\ Len(w) = Len(goFiles)
    /\ \A i \in Workers : w[i].pc = "done"

(***************************************************************************)
(* C1: once the barrier has completed, changes holds exactly one entry for *)
(* every candidate that was fetched, formatted and found different from    *)
(* its canonical form, with the candidate's path and mode and the          *)
(* canonical bytes as content, and no entry for anything else.             *)
(***************************************************************************)
C1_ChangesetExact ==
    BarrierDone =>
        /\ Len(w) = Len(goFiles)
        /\ \A i \in 1..Len(goFiles) :
             IF Changed(i)
             THEN /\ Cardinality(EntriesFor(goFiles[i].Path)) = 1
                  /\ \A k \in EntriesFor(goFiles[i].Path) :
                       /\ changes[k].Mode = goFiles[i].Mode
                       /\ changes[k].Content = Canonical(goFiles[i])
             ELSE EntriesFor(goFiles[i].Path) = {}
        /\ \A k \in 1..Len(changes) :
             \E i \in 1..Len(goFiles) : changes[k].Path = goFiles[i].Path

C1_Witness ==
    /\ BarrierDone
    /\ Len(changes) >= 2
    /\ \E i \in Workers : ~Changed(i)

(***************************************************************************)
(* C2: a candidate whose fetch or formatting failed stops only its own     *)
(* worker: at the barrier every other worker has run to its end, the ones  *)
(* that found a change are in changes, and the run has not been aborted    *)
(* by the failure.                                                         *)
(***************************************************************************)
C2_FailureIsolated ==
    \A x \in Workers :
        Failed(x) =>
            /\ w[x].pc = "done"
            /\ pc = "exit" => (exitCode = 0 \/ diag \in AssemblerDiags)
            /\ BarrierDone =>
                 \A y \in Workers \ {x} :
                    /\ w[y].pc = "done"
                    /\ Changed(y) => Cardinality(EntriesFor(goFiles[y].Path)) = 1

C2_Witness ==
    /\ BarrierDone
    /\ \E x, y \in Workers :
         /\ x < y
         /\ w[x].err = "fetch"
         /\ \E z \in Workers : w[z].err = "format"
         /\ Changed(y)
         /\ EntriesFor(goFiles[y].Path) # {}

(***************************************************************************)
(* C3: main() is past the barrier, and any remote write has been issued,   *)
(* only when every worker has finished; from then on changes never         *)
(* changes.                                                                *)
(***************************************************************************)
C3_BarrierState ==
    /\ BarrierDone => AllWorkersDone
    /\ Len(WriteCalls) > 0 => AllWorkersDone

C3_Barrier ==
    /\ []C3_BarrierState
    /\ [][BarrierDone => changes' = changes /\ BarrierDone']_vars

C3_Witness ==
    /\ pc = "fork"
    /\ Len(w) >= 2
    /\ Len(changes) >= 1

(***************************************************************************)
(* C4: when the raw bytes of every candidate are already canonical,        *)
(* changes stays empty and no remote write is ever issued.                 *)
(***************************************************************************)
AllCanonical ==
    \A i \in 1..Len(goFiles) :
        Formats(goFiles[i]) /\ Canonical(goFiles[i]) = Raw(goFiles[i])

C4_NoOp ==
    (pc \notin {"args", "token", "getref", "gettree"} /\ AllCanonical) =>
        /\ changes = <<>>
        /\ Len(WriteCalls) = 0
        /\ remote = EmptyRemote
        /\ pc = "exit" => (exitCode = 0 \/ diag \in PreBarrierDiags)

C4_Witness ==
    /\ pc = "exit"
    /\ exitCode = 0
    /\ Len(goFiles) >= 2
    /\ AllCanonical
    /\ \A i \in Workers : w[i].fetches = 1 /\ ~Failed(i)

(***************************************************************************)
(* C5: the remote writes are issued in the order fork, tree, commit,       *)
(* branch, pull request, each at most once, a step only after the one      *)
(* before it returned successfully, and a run that ends well with a        *)
(* non-empty changes has issued all five.                                  *)
(***************************************************************************)
StepOrder == <<"CreateFork", "CreateTree", "CreateCommit", "CreateRef", "CreatePR">>

StepPc == <<"fork", "tree", "commit", "ref", "pr">>

C5_StepOrder ==
    /\ Len(WriteCalls) <= Len(StepOrder)
    /\ \A k \in 1..Len(WriteCalls) :
         /\ WriteCalls[k].op = StepOrder[k]
         /\ k < Len(WriteCalls) => WriteCalls[k].ok
    /\ \A k \in 1..Len(StepPc) :
         pc = StepPc[k] =>
            /\ Len(WriteCalls) = k - 1
            /\ \A j \in 1..(k - 1) : WriteCalls[j].ok
    /\ (pc = "exit" /\ exitCode = 0 /\ BarrierDone /\ changes # <<>>) =>
            /\ Len(WriteCalls) = Len(StepOrder)
            /\ \A k \in 1..Len(WriteCalls) : WriteCalls[k].ok

C5_Witness ==
    /\ pc = "exit"
    /\ exitCode = 0
    /\ Len(WriteCalls) = 5
    /\ Len(changes) >= 2

(***************************************************************************)
(* C6: a failed assembler step is the last request of the run, which ends  *)
(* with status 1 at that step; no request other than the reads and the     *)
(* five creations is ever made, and whatever the earlier steps created is  *)
(* still on the service.                                                   *)
(***************************************************************************)
StepDiag(op) ==
    CASE op = "CreateFork" -> "Creating fork"
      [] op = "CreateTree" -> "Creating tree"
      [] op = "CreateCommit" -> "Creating commit"
      [] op = "CreateRef" -> "Creating branch"
      [] op = "CreatePR" -> "Creating pull request"

Exists(c) ==
    CASE c.op = "CreateFork" -> c.res \in remote.forks
      [] c.op = "CreateTree" -> \E t \in remote.trees : t.SHA = c.res.SHA
      [] c.op = "CreateCommit" -> \E m \in remote.commits : m.SHA = c.res.SHA
      [] c.op = "CreateRef" -> \E r \in remote.refs : r.ref = c.res.Ref
      [] c.op = "CreatePR" -> \E p \in remote.prs : p.url = c.res.HTMLURL

C6_AbortNoCleanup ==
    /\ \A k \in 1..Len(calls) :
         /\ calls[k].op \in {"GetRef", "GetTree"} \cup WriteOps
         /\ (calls[k].op \in WriteOps /\ ~calls[k].ok) =>
               /\ k = Len(calls)
               /\ pc = "exit"
               /\ exitCode = 1
               /\ diag = StepDiag(calls[k].op)
    /\ \A k \in 1..Len(WriteCalls) : WriteCalls[k].ok => Exists(WriteCalls[k])

C6_Witness ==
    /\ pc = "exit"
    /\ diag = "Creating commit"
    /\ Len(WriteCalls) = 3
    /\ remote.forks # {}
    /\ remote.trees # {}

(***************************************************************************)
(* C7: the identifiers a step is given are the ones earlier steps          *)
(* returned: CreateTree gets the fork's owner and name and the tree id of  *)
(* GetTree, CreateCommit the id of the new tree, CreateRef the id of the   *)
(* new commit, and the pull request's head is the fork's owner, a colon    *)
(* and the branch given to CreateRef.                                      *)
(***************************************************************************)
HasCall(op) == \E k \in 1..Len(calls) : calls[k].op = op

TheCall(op) == calls[CHOOSE k \in 1..Len(calls) : calls[k].op = op]

C7_IdentifiersThreaded ==
    /\ HasCall("CreateTree") =>
         /\ TheCall("CreateTree").args.owner = TheCall("CreateFork").res.Owner
         /\ TheCall("CreateTree").args.repo = TheCall("CreateFork").res.Name
         /\ TheCall("CreateTree").args.base = TheCall("GetTree").res.SHA
    /\ HasCall("CreateCommit") =>
         /\ TheCall("CreateCommit").args.owner = TheCall("CreateFork").res.Owner
         /\ TheCall("CreateCommit").args.repo = TheCall("CreateFork").res.Name
         /\ TheCall("CreateCommit").args.tree = TheCall("CreateTree").res.SHA
    /\ HasCall("CreateRef") =>
         /\ TheCall("CreateRef").args.owner = TheCall("CreateFork").res.Owner
         /\ TheCall("CreateRef").args.repo = TheCall("CreateFork").res.Name
         /\ TheCall("CreateRef").args.sha = TheCall("CreateCommit").res.SHA
    /\ HasCall("CreatePR") =>
         \E b \in {PrBranchName, branch} :
            /\ TheCall("CreateRef").args.ref = "refs/heads/" \o b
            /\ TheCall("CreatePR").args.head =
                  TheCall("CreateFork").res.Owner \o ":" \o b

C7_Witness ==
    /\ HasCall("CreatePR")
    /\ TheCall("CreatePR").ok
    /\ TheCall("CreateFork").res.Owner = "bot2"
    /\ TheCall("CreateTree").res.SHA = "T2"
    /\ TheCall("CreateCommit").res.SHA = "n2"

(***************************************************************************)
(* C8: CreateTree is given the original tree id as base and changes as     *)
(* overrides, and the tree it creates has, at every path that is not in    *)
(* changes, exactly the entry (mode and content) of the original tree.     *)
(***************************************************************************)
AllPaths == { e.Path : e \in FilePool }

At(t, path) == { e \in t : e.Path = path }

C8_MinimalDiff ==
    (HasCall("CreateTree") /\ TheCall("CreateTree").ok) =>
        /\ TheCall("CreateTree").args.base = OrigTreeId
        /\ TheCall("CreateTree").args.entries = changes
        /\ \E t \in remote.trees :
             /\ t.SHA = TheCall("CreateTree").res.SHA
             /\ \A path \in AllPaths :
                  IF EntriesFor(path) = {}
                  THEN At(t.entries, path) = At(TreeOf(repoTree), path)
                  ELSE \A e \in At(t.entries, path) :
                         \E k \in EntriesFor(path) : e.Content = changes[k].Content

C8_Witness ==
    /\ HasCall("CreateTree")
    /\ TheCall("CreateTree").ok
    /\ Len(repoTree) = 3
    /\ Len(goFiles) = 2
    /\ Len(changes) = 1
    /\ \E i \in Workers : ~Failed(i) /\ ~Changed(i)

(***************************************************************************)
(* C9: the candidates are the entries of the listing that are blobs, whose *)
(* path ends with the suffix and whose size is unknown or at most the      *)
(* ceiling: each of them once, in the order of the listing, and no others. *)
(* Checked under SelSpec, where the listing comes in any order.            *)
(***************************************************************************)
EndsWith(path, suffix) ==
    \E n \in 0..Len(path) : SubSeq(path, 1, n) \o suffix = path

Eligible(te) ==
    /\ te.Type = "blob"
    /\ EndsWith(te.Path, Suffix)
    /\ \A sz \in te.Size : sz <= MaxSize

EligibleIdx == { i \in 1..Len(repoTree) : Eligible(repoTree[i]) }

TreeFetched == HasCall("GetTree") /\ TheCall("GetTree").ok

PrerequisiteFailed(c) ==
    \/ c.op \in {"GetRef", "GetTree"} /\ ~c.ok
    \/ c.op = "GetRef" /\ c.ok /\ c.res.Type # "commit"

C10_PrerequisiteFatal ==
    \A k \in 1..Len(calls) :
        PrerequisiteFailed(calls[k]) =>
            /\ k = Len(calls)
            /\ pc = "exit"
            /\ exitCode = 1
            /\ w = <<>>
            /\ wg = 0
            /\ changes = <<>>
            /\ remote = EmptyRemote

C10_Witness ==
    /\ pc = "exit"
    /\ Len(calls) = 1
    /\ calls[1].ok
    /\ calls[1].res.Type = "tag"
    /\ Len(Select(repoTree)) >= 1

(***************************************************************************)
(* C11: a run with no argument, or with one argument that does not hold    *)
(* exactly one "/", ends with status 1 at the argument check: no request   *)
(* to the service has been made and no worker started.                     *)
(***************************************************************************)
Slashes(s) == { i \in 1..Len(s) : s[i] = "/" }

BadArguments ==
    \/ Len(argv) = 0
    \/ Len(argv) = 1 /\ Cardinality(Slashes(argv[1])) # 1

C11_UsageError ==
    (BadArguments /\ pc # "args") =>
        /\ pc = "exit"
        /\ exitCode = 1
        /\ diag = "usage"
        /\ calls = <<>>
        /\ w = <<>>
        /\ remote = EmptyRemote

C11_Witness ==
    /\ pc = "exit"
    /\ Len(argv) = 1
    /\ Cardinality(Slashes(argv[1])) = 2

(***************************************************************************)
(* C12: the exit status.  As claimed (C12_Original): 0 exactly when the    *)
(* pull request was created or changes was empty, and non-zero exactly     *)
(* when reading the token, resolving the branch, fetching the tree or an   *)
(* assembler step failed.  As amended (C12_ExitStatus): the non-zero       *)
(* exits are those failures and the usage error of the argument check.     *)
(* Worker failures do not enter into it.                                   *)
(***************************************************************************)
FatalStepDiags ==
    {"Reading auth token", "Getting ref", "branch does not point at a commit",
     "Getting tree"} \cup AssemblerDiags

PrCreated == HasCall("CreatePR") /\ TheCall("CreatePR").ok

EndedEmpty == BarrierDone /\ changes = <<>>

\* the failure the requests show, for the steps that make a request
LastCallFailed ==
    /\ Len(calls) > 0
    /\ \/ ~calls[Len(calls)].ok
       \/ calls[Len(calls)].op = "GetRef" /\ calls[Len(calls)].res.Type # "commit"

FatalStepFailed ==
    /\ diag \in FatalStepDiags
    /\ diag # "Reading auth token" => LastCallFailed

C12_Original ==
    pc = "exit" =>
        /\ exitCode = 0 <=> (PrCreated \/ EndedEmpty)
        /\ exitCode # 0 <=> FatalStepFailed

C12_ExitStatus ==
    pc = "exit" =>
        /\ exitCode \in {0, 1}
        /\ exitCode = 0 <=> (PrCreated \/ EndedEmpty)
        /\ exitCode # 0 <=> (FatalStepFailed \/ diag = "usage")
        /\ diag = "usage" => (Len(argv) # 1 \/ Len(Split(argv[1], "/")) # 2)

C12_Witness ==
    /\ pc = "exit"
    /\ exitCode = 0
    /\ PrCreated
    /\ \E i \in Workers : w[i].err = "fetch"
    /\ \E i \in Workers : w[i].err = "format"

(***************************************************************************)
(* C13: the commit is created with exactly one parent, the commit id that  *)
(* GetRef returned for the branch, and it keeps that parent after          *)
(* CreateRef has assigned its own result to the variable ref.              *)
(***************************************************************************)
ResolvedCommit == TheCall("GetRef").res.SHA

C13_SingleParent ==
    HasCall("CreateCommit") =>
        /\ TheCall("CreateCommit").args.parents = <<ResolvedCommit>>
        /\ origCommit = ResolvedCommit
        /\ TheCall("CreateCommit").ok =>
             \A m \in remote.commits :
                /\ m.SHA = TheCall("CreateCommit").res.SHA
                /\ Len(m.parents) = 1
                /\ m.parents[1] = ResolvedCommit

C13_Witness ==
    /\ pc = "pr"
    /\ ResolvedCommit = "c2"
    /\ ref.SHA # ResolvedCommit
    /\ remote.commits # {}

(***************************************************************************)
(* C14: the pull request is opened on the owner and repository of the      *)
(* command line, with head "<fork owner>:<branch created in the fork>" and *)
(* as base the branch GetRef resolved; the tree, the commit and the branch *)
(* are created in the repository CreateFork returned.                      *)
(***************************************************************************)
InFork(c) ==
    /\ c.args.owner = TheCall("CreateFork").res.Owner
    /\ c.args.repo = TheCall("CreateFork").res.Name

C14_Targets ==
    /\ \A op \in {"CreateTree", "CreateCommit", "CreateRef"} :
         HasCall(op) => InFork(TheCall(op))
    /\ \A t \in remote.trees \cup remote.commits \cup remote.refs :
         /\ t.owner = TheCall("CreateFork").res.Owner
         /\ t.repo = TheCall("CreateFork").res.Name
    /\ HasCall("CreatePR") =>
         /\ TheCall("CreatePR").args.owner = Split(argv[1], "/")[1]
         /\ TheCall("CreatePR").args.repo = Split(argv[1], "/")[2]
         /\ TheCall("CreatePR").args.owner = TheCall("GetRef").args.owner
         /\ TheCall("CreatePR").args.repo = TheCall("GetRef").args.repo
         /\ TheCall("CreatePR").args.base = "master"
         /\ TheCall("GetRef").args.ref = "refs/heads/" \o TheCall("CreatePR").args.base
         /\ \E r \in remote.refs :
              /\ r.ref = "refs/heads/" \o "prbot-gofmt"
              /\ TheCall("CreatePR").args.head = r.owner \o ":" \o "prbot-gofmt"
    /\ \A p \in remote.prs :
         /\ p.owner = TheCall("GetRef").args.owner
         /\ p.repo = TheCall("GetRef").args.repo

C14_Witness ==
    /\ PrCreated
    /\ TheCall("CreatePR").args.head = "bot2:prbot-gofmt"
    /\ remote.prs # {}

(***************************************************************************)
(* C15: original commit id, original tree, fork, new tree, new commit,     *)
(* branch name and pull request are each written by one step only, and     *)
(* main() passes every step at most once, so none of them is written       *)
(* twice or overwritten.                                                   *)
(***************************************************************************)
PcOrder ==
    <<"args", "token", "getref", "gettree", "spawn", "wait", "checklen",
      "fork", "tree", "commit", "ref", "pr", "exit">>

Rank(p) == CHOOSE k \in 1..Len(PcOrder) : PcOrder[k] = p

\* the step at position p is being taken
Leaves(p) == pc = p /\ pc' # p

C15_WriteOnce ==
    [][ /\ Rank(pc') >= Rank(pc)
        /\ ~Leaves("getref") => origCommit' = origCommit
        /\ ~Leaves("gettree") => tree' = tree
        /\ ~Leaves("fork") => fork' = fork
        /\ ~Leaves("tree") => newTree' = newTree
        /\ ~Leaves("commit") => comm' = comm
        /\ ~Leaves("ref") => prBranch' = prBranch
        /\ ~Leaves("pr") => pr' = pr ]_vars

C15_Witness ==
    /\ PrCreated
    /\ pc = "exit"
    /\ ref.SHA = "n1"
    /\ origCommit = "c1"

(***************************************************************************)
(* C16: one worker is started per candidate, for that candidate; a worker  *)
(* fetches the blob of its own candidate once and never again, whether the *)
(* fetch or the formatting failed or not.                                  *)
(***************************************************************************)
SpawnLoopOver == pc \in {"wait", "checklen", "fork", "tree", "commit", "ref", "pr"} \/ BarrierDone

C16_OneWorkerOneFetch ==
    /\ Len(w) <= Len(goFiles)
    /\ SpawnLoopOver => Len(w) = Len(goFiles)
    /\ wg = Cardinality({ i \in Workers : w[i].pc # "done" })
    /\ \A i \in Workers :
         /\ w[i].te = goFiles[i]
         /\ w[i].fetches = (IF w[i].pc = "fetch" THEN 0 ELSE 1)
         /\ (w[i].pc # "fetch" /\ w[i].err # "fetch") =>
               w[i].in = Blob(goFiles[i].SHA)
         /\ Failed(i) => w[i].pc = "done"

C16_Witness ==
    /\ BarrierDone
    /\ Len(w) = 4
    /\ \E i \in Workers : w[i].err = "fetch"
    /\ \E i \in Workers : w[i].err = "format"

(***************************************************************************)
(* C17: changes is written only by the worker that holds the mutex; at    *)
(* most one worker is between Lock and Unlock at a time, and a worker      *)
(* that has left add() or finished no longer holds the mutex.              *)
(***************************************************************************)
InCritical(i) == w[i].pc = "append"

C17_MutexState ==
    /\ Cardinality({ i \in Workers : InCritical(i) }) <= 1
    /\ \A i \in Workers : InCritical(i) <=> mu = i
    /\ mu # 0 => mu \in Workers

C17_Mutex ==
    /\ []C17_MutexState
    /\ [][changes' # changes =>
            \E i \in Workers :
               /\ InCritical(i)
               /\ mu = i
               /\ mu' = 0
               /\ ~InCritical(i)'
               /\ Len(changes') = Len(changes) + 1
               /\ SubSeq(changes', 1, Len(changes)) = changes]_vars

C17_Witness ==
    /\ \E i, j \in Workers :
         /\ InCritical(i)
         /\ w[j].pc = "lock"
    /\ mu # 0

(***************************************************************************)
(* C18: when every call returns and the goroutines keep being scheduled    *)
(* (FairSpec), main() always leaves the barrier and the run ends: with     *)
(* the pull request created, with an empty changes, or aborted with        *)
(* status 1 and the diagnostic of the step that failed.                    *)
(***************************************************************************)
AbortedAtStep ==
    /\ exitCode = 1
    /\ diag \in FatalStepDiags \cup {"usage"}

Terminated ==
    /\ pc = "exit"
    /\ \/ exitCode = 0 /\ PrCreated
       \/ exitCode = 0 /\ EndedEmpty
       \/ AbortedAtStep

C18_Terminates ==
    /\ <>Terminated
    /\ (pc = "wait") ~> (pc = "checklen")

C18_Witness ==
    /\ Terminated
    /\ PrCreated
    /\ Len(w) = 4
    /\ \E i \in Workers : w[i].err = "fetch"
    /\ \E i \in Workers : w[i].err = "format"
    /\ \E i \in Workers : ~Failed(i) /\ ~Changed(i)

(***************************************************************************)
(* C19: when the fetch or the formatting failed for every candidate, the   *)
(* run ends as it does when every candidate is canonical (C4): changes is  *)
(* empty, no remote write is made, and the exit status is 0 with no        *)
(* diagnostic.                                                             *)
(***************************************************************************)
AllFailed ==
    /\ Len(goFiles) > 0
    /\ Len(w) = Len(goFiles)
    /\ \A i \in Workers : Failed(i)

\* what a run shows at its end: changes, the writes, the exit status
Outcome == <<changes, WriteCalls, remote, exitCode, diag>>

NoOpOutcome == <<(<<>>), (<<>>), EmptyRemote, 0, Nil>>

C19_AllFailedIsNoOp ==
    /\ AllFailed =>
         /\ changes = <<>>
         /\ Len(WriteCalls) = 0
         /\ remote = EmptyRemote
         /\ pc \in {"spawn", "wait", "checklen", "exit"}
         /\ pc = "exit" => Outcome = NoOpOutcome
    /\ (AllCanonical /\ BarrierDone /\ pc = "exit") => Outcome = NoOpOutcome

C19_Witness ==
    /\ AllFailed
    /\ pc = "exit"
    /\ Len(goFiles) >= 3
    /\ \E i \in Workers : w[i].err = "fetch"
    /\ \E i \in Workers : w[i].err = "format"
    /\ \E i \in Workers : Formats(goFiles[i]) /\ Canonical(goFiles[i]) # Raw(goFiles[i])

(***************************************************************************)
(* C20: after the barrier the set of entries of changes is determined by   *)
(* the candidates and by the outcome of each candidate's fetch and         *)
(* formatting, whatever the order in which the workers ran; so is whether  *)
(* the assembler runs.  Only the order of the entries varies.              *)
(***************************************************************************)
FetchFailed(i) == w[i].err = "fetch"

\* the entries the candidates and their outcomes call for
ExpectedEntries ==
    { [Path |-> goFiles[i].Path, Mode |-> goFiles[i].Mode,
       Type |-> goFiles[i].Type, Content |-> Canonical(goFiles[i])] :
        i \in { j \in 1..Len(goFiles) :
                  /\ ~FetchFailed(j)
                  /\ Formats(goFiles[j])
                  /\ Canonical(goFiles[j]) # Raw(goFiles[j]) } }

EntrySet == { changes[k] : k \in 1..Len(changes) }

AssemblerRuns == pc \in {"fork", "tree", "commit", "ref", "pr"} \/ Len(WriteCalls) > 0

C20_ScheduleIndependent ==
    BarrierDone =>
        /\ EntrySet = ExpectedEntries
        /\ Len(changes) = Cardinality(ExpectedEntries)
        /\ pc # "checklen" => (AssemblerRuns <=> ExpectedEntries # {})

\* the entries of changes in the reverse of the candidates' order
C20_Witness ==
    /\ BarrierDone
    /\ Len(changes) = 2
    /\ \E i, j \in 1..Len(goFiles) :
         /\ i < j
         /\ changes[1].Path = goFiles[j].Path
         /\ changes[2].Path = goFiles[i].Path
    /\ AssemblerRuns

====
